---- MODULE Spec2Model ----
(***************************************************************************)
(* Model of the Wikipedia crawler of src/main.py: the coordinator          *)
(* WikipediaCrawler.run, the worker loop WikipediaCrawler.worker, the      *)
(* per-task routine WikipediaCrawler.crawl, the store DatabaseHandler,     *)
(* the frontier queue.Queue (FIFO, with its unfinished_tasks counter) and  *)
(* the lock db_lock.  Strings are TLA+ strings, so base_url + link is      *)
(* real concatenation and link equality is exact string equality.          *)
(***************************************************************************)
EXTENDS Integers, Sequences, FiniteSets, TLC

(***************************************************************************)
(* Bounds of the model.                                                    *)
(***************************************************************************)
\* number of distinct article pages of the site (the link universe)
MaxPages == 4
\* largest threads_count a run is started with
MaxThreads == 2
\* largest max_depth a run is started with
MaxDepth == 2
\* largest number of matching links the extractor finds on one page
MaxLinks == 2

(***************************************************************************)
(* Strings.                                                                *)
(***************************************************************************)
URL == "wikipedia.org"

\* the scheme and host part of the seed URLs the model starts the program with
Site == "https://en.wikipedia.org"

SetMin(S) == CHOOSE x \in S : \A y \in S : x <= y

\* Python str.find: lowest 0-based index of sub in s, -1 when absent
Find(s, sub) ==
  LET hits == { i \in 0..(Len(s) - Len(sub)) : SubSeq(s, i + 1, i + Len(sub)) = sub }
  IN  IF hits = {} THEN -1 ELSE SetMin(hits)

\* Python s[:k]
SliceTo(s, k) ==
  LET n == Len(s)
      e == IF k >= 0 THEN (IF k < n THEN k ELSE n)
                     ELSE (IF n + k > 0 THEN n + k ELSE 0)
  IN  SubSeq(s, 1, e)

\* self.base_url = self.start_url[:self.start_url.find(URL) + len(URL)]
BaseUrlOf(s) == SliceTo(s, Find(s, URL) + Len(URL))

\* relative paths the link extractor can return: they match ^/wiki/(?!.*:).*
Paths == { "/wiki/P" \o ToString(i) : i \in 1..MaxPages }

\* the absolute links of the site, which are also the seed URLs (sys.argv[1])
Urls == { Site \o p : p \in Paths }

\* the seed of the first run (the pages are interchangeable)
FirstSeed == Site \o "/wiki/P1"

Depths == 1..MaxDepth

\* what parser.get_found_links() can return for one page
LinkSets == { s \in SUBSET Paths : Cardinality(s) <= MaxLinks }

NoTask == [url |-> "", depth |-> 0]

VARIABLES
  start_url,        \* WikipediaCrawler.start_url
  base_url,         \* WikipediaCrawler.base_url
  max_depth,        \* WikipediaCrawler.max_depth
  threads_count,    \* WikipediaCrawler.threads_count
  table,            \* rows of table links as the connection sees them: link -> number of rows
  uncommitted,      \* links whose row is in the connection's open transaction only
  task_queue,       \* queue.Queue contents (FIFO) of <<url, depth>> tasks
  unfinished_tasks, \* queue.Queue.unfinished_tasks
  db_lock,          \* owner of db_lock: 0 when free, else the worker holding it
  mpc,              \* position of the main thread in run()
  pc,               \* position of each worker thread
  task,             \* (url, depth) a worker got from the queue
  found_links,      \* links of parser.get_found_links() a worker still has to visit
  full_link,        \* full_link of the current loop iteration of crawl
  is_unique,        \* is_unique of the current loop iteration of crawl
  pages,            \* the site: what the extractor returned for each fetched url
  store0,           \* history: links in the table when the current run started
  tried,            \* history: links insert_link was called on in this run
  news,             \* history: link -> number of insert_link calls that returned True
  firsts,           \* history: <<link, depth>>: insert_link returned True in a task of that depth (0: run)
  puts,             \* history: link -> number of task_queue.put calls for it
  submitted,        \* history: tasks put, each with the depth of its producing task (0: run)
  dequeued,         \* history: number of successful task_queue.get calls
  marked,           \* history: number of task_queue.task_done calls
  _level,           \* MyWikipediaPageParser._level
  _wrapper_tag,     \* MyWikipediaPageParser._wrapper_tag
  _found_links,     \* MyWikipediaPageParser._found_links
  feed_raised,      \* an exception left handle_starttag, and so parser.feed
  open_tags,        \* the document fed so far: its open elements, innermost last
  container,        \* the document fed so far: where the id="bodyContent" element is
  hrefs_inside      \* the document fed so far: href attributes of the <a> start tags after
                    \* the start tag of that element and before its end tag

config == <<start_url, base_url, max_depth, threads_count>>
locals == <<task, found_links, full_link, is_unique>>
hist   == <<store0, tried, news, firsts, puts, submitted, dequeued, marked>>
html   == <<_level, _wrapper_tag, _found_links, feed_raised, open_tags, container,
           hrefs_inside>>
vars   == <<config, table, uncommitted, task_queue, unfinished_tasks, db_lock, mpc, pc, locals,
           pages, hist, html>>

Workers == 1..threads_count

(***************************************************************************)
(* MyWikipediaPageParser, driven by the start and end tag events that      *)
(* HTMLParser.feed produces for a well-nested document.                    *)
(***************************************************************************)
\* deepest nesting of open elements in the documents fed
MaxOpen == 3

\* largest number of attributes on one start tag
MaxAttrs == 2

Tags == {"div", "a"}

\* href values the documents use: an article, a namespaced page, a path outside
\* /wiki/, and an article path with a line break before a colon
Hrefs == {"/wiki/A", "/wiki/Help:Foo", "/w/index.php", "/wiki/a\nb:c"}

\* one (name, value) pair of attrs; none marks the value None of <a href>
Attr(n, v) == [name |-> n, value |-> v, none |-> FALSE]
AttrNone(n) == [name |-> n, value |-> "", none |-> TRUE]

Attrs == { Attr("id", "bodyContent"), Attr("id", "footer"), AttrNone("href") }
           \cup { Attr("href", h) : h \in Hrefs }

AttrLists == UNION { [1..n -> Attrs] : n \in 0..MaxAttrs }

\* re.compile(r"^/wiki/(?!.*:).*").match(value): '.' does not match a line
\* break, so the lookahead sees the first line of what follows /wiki/
pattern_match(value) ==
  /\ Len(value) >= 6
  /\ SubSeq(value, 1, 6) = "/wiki/"
  /\ LET rest == SubSeq(value, 7, Len(value))
         nl   == Find(rest, "\n")
         line == IF nl = -1 THEN rest ELSE SliceTo(rest, nl)
     IN  Find(line, ":") = -1

\* the loop over attrs that looks for id="bodyContent"
HasWrapperId(attrs) ==
  \E i \in 1..Len(attrs) :
    attrs[i].name = "id" /\ ~attrs[i].none /\ attrs[i].value = "bodyContent"

\* the loop over attrs that collects hrefs, from attribute i on: the links
\* added and whether pattern.match raised TypeError on a None value
RECURSIVE CollectHrefs(_, _, _)
CollectHrefs(attrs, i, links) ==
  IF i > Len(attrs) THEN [links |-> links, raised |-> FALSE]
  ELSE IF attrs[i].name # "href" THEN CollectHrefs(attrs, i + 1, links)
  ELSE IF attrs[i].none THEN [links |-> links, raised |-> TRUE]
  ELSE IF pattern_match(attrs[i].value)
       THEN CollectHrefs(attrs, i + 1, links \cup {attrs[i].value})
       ELSE CollectHrefs(attrs, i + 1, links)

\* MyWikipediaPageParser.__init__, and an empty document
ParserInit ==
  /\ _level = 0
  /\ _wrapper_tag = ""
  /\ _found_links = {}
  /\ feed_raised = FALSE
  /\ open_tags = <<>>
  /\ container = "before"
  /\ hrefs_inside = {}

\* the next event of the document is a start tag; at most one element of the
\* document carries id="bodyContent"
handle_starttag(tag, attrs) ==
  LET bumped  == IF _level > 0 /\ tag = _wrapper_tag THEN _level + 1 ELSE _level
      wrapper == HasWrapperId(attrs)
      level   == IF wrapper THEN 1 ELSE bumped
      hrefs   == IF level # 0 /\ tag = "a"
                 THEN CollectHrefs(attrs, 1, _found_links)
                 ELSE [links |-> _found_links, raised |-> FALSE]
  IN  /\ ~feed_raised
      /\ Len(open_tags) < MaxOpen
      /\ Cardinality({ i \in 1..Len(attrs) : attrs[i] = Attr("id", "bodyContent") })
           <= (IF container = "before" THEN 1 ELSE 0)
      /\ _level' = level
      /\ _wrapper_tag' = (IF wrapper THEN tag ELSE _wrapper_tag)
      /\ _found_links' = hrefs.links
      /\ feed_raised' = hrefs.raised
      /\ open_tags' = Append(open_tags, [tag |-> tag, wrapper |-> wrapper])
      /\ container' = (IF wrapper THEN "inside" ELSE container)
      /\ hrefs_inside' = (IF container = "inside" /\ tag = "a"
                          THEN hrefs_inside \cup { attrs[i] : i \in { j \in 1..Len(attrs) :
                                                                     attrs[j].name = "href" } }
                          ELSE hrefs_inside)
      /\ UNCHANGED <<config, table, uncommitted, task_queue, unfinished_tasks, db_lock, mpc, pc,
                     locals, pages, hist>>

\* the next event of the document is the end tag of its innermost open element
handle_endtag ==
  /\ ~feed_raised
  /\ open_tags # <<>>
  /\ LET top == open_tags[Len(open_tags)]
     IN  /\ _level' = (IF _level > 0 /\ top.tag = _wrapper_tag THEN _level - 1 ELSE _level)
         /\ open_tags' = SubSeq(open_tags, 1, Len(open_tags) - 1)
         /\ container' = (IF top.wrapper THEN "after" ELSE container)
  /\ UNCHANGED <<_wrapper_tag, _found_links, feed_raised, hrefs_inside>>
  /\ UNCHANGED <<config, table, uncommitted, task_queue, unfinished_tasks, db_lock, mpc, pc,
                 locals, pages, hist>>

\* parser = MyWikipediaPageParser() for the next page
Parser_New ==
  /\ open_tags = <<>> \/ feed_raised
  /\ container # "before"
  /\ _level' = 0
  /\ _wrapper_tag' = ""
  /\ _found_links' = {}
  /\ feed_raised' = FALSE
  /\ open_tags' = <<>>
  /\ container' = "before"
  /\ hrefs_inside' = {}
  /\ UNCHANGED <<config, table, uncommitted, task_queue, unfinished_tasks, db_lock, mpc, pc,
                 locals, pages, hist>>

(***************************************************************************)
(* DatabaseHandler.                                                        *)
(***************************************************************************)
\* SELECT link FROM links, as a set
get_all_links(t) == { l \in DOMAIN t : t[l] > 0 }

\* INSERT without the UNIQUE constraint: a row is always added
insert_link_NoUnique(t, link) ==
  [ok |-> TRUE, table |-> [t EXCEPT ![link] = @ + 1]]

\* insert_link: the UNIQUE column raises IntegrityError when link is present
insert_link(t, link) ==
  IF t[link] > 0
    THEN [ok |-> FALSE, table |-> t]
    ELSE [ok |-> TRUE,  table |-> [t EXCEPT ![link] = 1]]

(***************************************************************************)
(* Guards of crawl, worker and run.                                        *)
(***************************************************************************)
\* with self.db_lock: blocks until no thread holds the lock
LockFree == db_lock = 0

\* the test of line 97 without its depth part, without its is_unique part,
\* and with <= for <
ShouldEnqueue_NoDepth(depth, unique) == unique
ShouldEnqueue_NoUnique(depth, unique) == depth < max_depth
ShouldEnqueue_OffByOne(depth, unique) == depth <= max_depth /\ unique

\* if depth < self.max_depth and is_unique
ShouldEnqueue(depth, unique) == depth < max_depth /\ unique

\* a join that returns at once
JoinReady_NoWait == TRUE

\* Queue.join returns when unfinished_tasks is 0
JoinReady == unfinished_tasks = 0

\* Queue.task_done that forgets to count
AfterTaskDone_NoCount(n) == n

\* Queue.task_done: unfinished_tasks - 1
AfterTaskDone(n) == n - 1

\* a loop that is left after its first iteration at the latest
LoopDone_Early(rest) == TRUE

\* for link in parser.get_found_links(): the loop ends when no link is left
LoopDone(rest) == rest = {}

\* a get whose timeout can elapse although a task is waiting
GetTimesOut_Always(q) == TRUE

\* Queue.get(timeout=...): Empty is raised only when the deadline has passed
\* and the queue holds nothing at that moment
GetTimesOut(q) == q = <<>>

\* a get that hands the oldest task out and leaves it in the queue
AfterGet_Peek(q) == q

\* Queue.get: the task handed out is removed from the queue (popleft)
AfterGet(q) == Tail(q)

\* executor shutdown(wait=True): every submitted worker call has ended,
\* by returning (Empty) or by an exception out of crawl
AllWorkersEnded == \A w \in Workers : pc[w] \in {"stopped", "raised", "db_error"}

(***************************************************************************)
(* Initial state: the crawler is constructed, the table exists and is      *)
(* empty (first run on a fresh database.db).                               *)
(***************************************************************************)
\* the state after construction, but for max_depth
InitRest ==
  /\ start_url = FirstSeed
  /\ base_url = BaseUrlOf(start_url)
  /\ threads_count \in 1..MaxThreads
  /\ table = [l \in Urls |-> 0]
  /\ uncommitted = {}
  /\ task_queue = <<>>
  /\ unfinished_tasks = 0
  /\ db_lock = 0
  /\ mpc = "run"
  /\ pc = [w \in 1..threads_count |-> "idle"]
  /\ task = [w \in 1..threads_count |-> NoTask]
  /\ found_links = [w \in 1..threads_count |-> {}]
  /\ full_link = [w \in 1..threads_count |-> ""]
  /\ is_unique = [w \in 1..threads_count |-> FALSE]
  /\ pages = [l \in Urls |-> {"?"}]
  /\ store0 = {}
  /\ tried = {}
  /\ news = [l \in Urls |-> 0]
  /\ firsts = {}
  /\ puts = [l \in Urls |-> 0]
  /\ submitted = {}
  /\ dequeued = 0
  /\ marked = 0
  /\ ParserInit

Init ==
  /\ max_depth \in Depths
  /\ InitRest

\* a crawl one level deeper, where tasks below max_depth come from two levels
DeepInit ==
  /\ max_depth = MaxDepth + 1
  /\ InitRest

(***************************************************************************)
(* WikipediaCrawler.run                                                    *)
(***************************************************************************)
\* lines 110-111: insert the seed (result ignored) and put the seed task; no
\* worker call exists yet
Run_Start ==
  /\ mpc = "run"
  /\ LET r == insert_link(table, start_url) IN
       /\ table' = r.table
       /\ uncommitted' = IF r.ok THEN {} ELSE uncommitted
       /\ news' = IF r.ok THEN [news EXCEPT ![start_url] = @ + 1] ELSE news
       /\ firsts' = IF r.ok THEN firsts \cup {<<start_url, 0>>} ELSE firsts
  /\ tried' = tried \cup {start_url}
  /\ task_queue' = Append(task_queue, <<start_url, 1>>)
  /\ unfinished_tasks' = unfinished_tasks + 1
  /\ puts' = [puts EXCEPT ![start_url] = @ + 1]
  /\ submitted' = submitted \cup {[url |-> start_url, depth |-> 1, parent |-> 0]}
  /\ mpc' = "submit"
  /\ UNCHANGED <<html, config, db_lock, pc, locals, pages, store0, dequeued, marked>>

\* line 110 (60-61): cursor.execute or commit raises an sqlite3 error other
\* than IntegrityError; it leaves insert_link and run(): the seed task is not
\* put and no worker call is submitted.  As in a worker, the row stays when
\* it is commit that raises; the open transaction holds no other row here,
\* so an error on which sqlite rolls back leaves the table as it was.
Run_StartFail ==
  /\ mpc = "run"
  /\ \/ UNCHANGED <<table, uncommitted>>
     \/ /\ table[start_url] = 0
        /\ table' = [table EXCEPT ![start_url] = 1]
        /\ uncommitted' = uncommitted \cup {start_url}
  /\ tried' = tried \cup {start_url}
  /\ mpc' = "raised"
  /\ UNCHANGED <<html, config, task_queue, unfinished_tasks, db_lock, pc, locals, pages,
                 store0, news, firsts, puts, submitted, dequeued, marked>>

\* lines 113-114: one executor.submit(self.worker); the worker calls are
\* submitted one by one, and those already submitted run meanwhile
Run_Submit ==
  /\ mpc = "submit"
  /\ LET w == SetMin({ v \in Workers : pc[v] = "idle" }) IN
       /\ pc' = [pc EXCEPT ![w] = "get"]
       /\ mpc' = IF w = threads_count THEN "shutdown" ELSE "submit"
  /\ UNCHANGED <<html, config, table, uncommitted, task_queue, unfinished_tasks, db_lock, locals,
                 pages, hist>>

\* end of the with block: executor.shutdown(wait=True)
Run_Shutdown ==
  /\ mpc = "shutdown"
  /\ AllWorkersEnded
  /\ mpc' = "join"
  /\ UNCHANGED <<html, config, table, uncommitted, task_queue, unfinished_tasks, db_lock, pc, locals,
                 pages, hist>>

\* line 116: self.task_queue.join(), then run returns
Run_Join ==
  /\ mpc = "join"
  /\ JoinReady
  /\ mpc' = "returned"
  /\ UNCHANGED <<html, config, table, uncommitted, task_queue, unfinished_tasks, db_lock, pc, locals,
                 pages, hist>>

(***************************************************************************)
(* WikipediaCrawler.worker                                                 *)
(***************************************************************************)
\* line 103: task_queue.get returns the oldest task
Worker_Get(w) ==
  /\ pc[w] = "get"
  /\ task_queue # <<>>
  /\ task' = [task EXCEPT ![w] = [url |-> Head(task_queue)[1], depth |-> Head(task_queue)[2]]]
  /\ task_queue' = AfterGet(task_queue)
  /\ dequeued' = dequeued + 1
  /\ pc' = [pc EXCEPT ![w] = "crawl"]
  /\ UNCHANGED <<html, config, table, uncommitted, unfinished_tasks, db_lock, mpc, found_links, full_link,
                 is_unique, pages, store0, tried, news, firsts, puts, submitted, marked>>

\* lines 104-105: the timeout elapses with the queue empty: Empty, break
Worker_Empty(w) ==
  /\ pc[w] = "get"
  /\ GetTimesOut(task_queue)
  /\ pc' = [pc EXCEPT ![w] = "stopped"]
  /\ UNCHANGED <<html, config, table, uncommitted, task_queue, unfinished_tasks, db_lock, mpc, locals,
                 pages, hist>>

\* line 107: task_queue.task_done()
Worker_TaskDone(w) ==
  /\ pc[w] = "task_done"
  /\ unfinished_tasks' = AfterTaskDone(unfinished_tasks)
  /\ marked' = marked + 1
  /\ task' = [task EXCEPT ![w] = NoTask]
  /\ pc' = [pc EXCEPT ![w] = "get"]
  /\ UNCHANGED <<html, config, table, uncommitted, task_queue, db_lock, mpc, found_links, full_link,
                 is_unique, pages, store0, tried, news, firsts, puts, submitted, dequeued>>

(***************************************************************************)
(* WikipediaCrawler.crawl                                                  *)
(***************************************************************************)
\* lines 87-91: the page is fetched, decoded and parsed.  The site answers
\* with some set of matching links the first time a url is fetched and with
\* the same set afterwards within the run.
Crawl_Fetch(w) ==
  /\ pc[w] = "crawl"
  /\ \E links \in LinkSets :
       /\ pages[task[w].url] \in {{"?"}, links}
       /\ pages' = [pages EXCEPT ![task[w].url] = links]
       /\ found_links' = [found_links EXCEPT ![w] = links]
       /\ pc' = [pc EXCEPT ![w] = IF LoopDone(links) THEN "task_done" ELSE "lock"]
  /\ UNCHANGED <<html, config, table, uncommitted, task_queue, unfinished_tasks, db_lock, mpc, task,
                 full_link, is_unique, hist>>

\* lines 89-90: urlopen or decode raises; nothing in crawl or worker catches
\* it, so it leaves worker and ends that executor call
Crawl_FetchFail(w) ==
  /\ pc[w] = "crawl"
  /\ pc' = [pc EXCEPT ![w] = "raised"]
  /\ UNCHANGED <<html, config, table, uncommitted, task_queue, unfinished_tasks, db_lock, mpc, locals,
                 pages, hist>>

\* lines 93-95: next link of the set (in any order), full_link, lock acquired
Crawl_Lock(w) ==
  /\ pc[w] = "lock"
  /\ LockFree
  /\ \E link \in found_links[w] :
       /\ full_link' = [full_link EXCEPT ![w] = base_url \o link]
       /\ found_links' = [found_links EXCEPT ![w] = @ \ {link}]
  /\ db_lock' = w
  /\ pc' = [pc EXCEPT ![w] = "insert"]
  /\ UNCHANGED <<html, config, table, uncommitted, task_queue, unfinished_tasks, mpc, task, is_unique,
                 pages, hist>>

\* line 96: is_unique = insert_link(full_link), then the lock is released
Crawl_Insert(w) ==
  /\ pc[w] = "insert"
  /\ LET r == insert_link(table, full_link[w]) IN
       /\ table' = r.table
       /\ uncommitted' = IF r.ok THEN {} ELSE uncommitted
       /\ is_unique' = [is_unique EXCEPT ![w] = r.ok]
       /\ news' = IF r.ok THEN [news EXCEPT ![full_link[w]] = @ + 1] ELSE news
       /\ firsts' = IF r.ok THEN firsts \cup {<<full_link[w], task[w].depth>>} ELSE firsts
  /\ tried' = tried \cup {full_link[w]}
  /\ db_lock' = 0
  /\ pc' = [pc EXCEPT ![w] = "put"]
  /\ UNCHANGED <<html, config, task_queue, unfinished_tasks, mpc, task, found_links, full_link,
                 pages, store0, puts, submitted, dequeued, marked>>

\* line 96 (60-64): cursor.execute or commit raises an sqlite3 error other
\* than IntegrityError; insert_link catches only IntegrityError, the with
\* block releases the lock, and the exception leaves crawl and worker.
\* When it is execute that raises, no row is added; when it is commit, which
\* is reached only for a link not yet present, the row execute added stays
\* in the open transaction: get_all_links and later inserts see it, and the
\* next commit that succeeds makes it durable.  When the error is one on
\* which sqlite rolls the transaction back itself (disk I/O error, disk
\* full), every row of the open transaction is lost, this call's included.
Crawl_InsertFail(w) ==
  /\ pc[w] = "insert"
  /\ \/ UNCHANGED <<table, uncommitted>>
     \/ /\ table[full_link[w]] = 0
        /\ table' = [table EXCEPT ![full_link[w]] = 1]
        /\ uncommitted' = uncommitted \cup {full_link[w]}
     \/ /\ table' = [l \in Urls |-> IF l \in uncommitted THEN 0 ELSE table[l]]
        /\ uncommitted' = {}
  /\ tried' = tried \cup {full_link[w]}
  /\ db_lock' = 0
  /\ pc' = [pc EXCEPT ![w] = "db_error"]
  /\ UNCHANGED <<html, config, task_queue, unfinished_tasks, mpc, locals, pages,
                 store0, news, firsts, puts, submitted, dequeued, marked>>

\* lines 97-98: the child task is put when the depth allows and the link is
\* new; then the loop goes on, or crawl returns
Crawl_Put(w) ==
  /\ pc[w] = "put"
  /\ IF ShouldEnqueue(task[w].depth, is_unique[w])
       THEN /\ task_queue' = Append(task_queue, <<full_link[w], task[w].depth + 1>>)
            /\ unfinished_tasks' = unfinished_tasks + 1
            /\ puts' = [puts EXCEPT ![full_link[w]] = @ + 1]
            /\ submitted' = submitted \cup
                 {[url |-> full_link[w], depth |-> task[w].depth + 1, parent |-> task[w].depth]}
       ELSE UNCHANGED <<task_queue, unfinished_tasks, puts, submitted>>
  /\ full_link' = [full_link EXCEPT ![w] = ""]
  /\ is_unique' = [is_unique EXCEPT ![w] = FALSE]
  /\ pc' = [pc EXCEPT ![w] = IF LoopDone(found_links[w]) THEN "task_done" ELSE "lock"]
  /\ UNCHANGED <<html, config, table, uncommitted, db_lock, mpc, task, found_links, pages,
                 store0, tried, news, firsts, dequeued, marked>>

(***************************************************************************)
(* The program is run again on the same database.db, after run() returned  *)
(* or raised, with some seed; the site may have changed in between.  The   *)
(* end of the process (DatabaseHandler.close) rolls back the rows of the   *)
(* open transaction.                                                       *)
(***************************************************************************)
Rerun ==
  /\ mpc \in {"returned", "raised"}
  /\ start_url' \in Urls
  /\ base_url' = BaseUrlOf(start_url')
  /\ task_queue' = <<>>
  /\ unfinished_tasks' = 0
  /\ db_lock' = 0
  /\ mpc' = "run"
  /\ pc' = [w \in Workers |-> "idle"]
  /\ task' = [w \in Workers |-> NoTask]
  /\ found_links' = [w \in Workers |-> {}]
  /\ full_link' = [w \in Workers |-> ""]
  /\ is_unique' = [w \in Workers |-> FALSE]
  /\ table' = [l \in Urls |-> IF l \in uncommitted THEN 0 ELSE table[l]]
  /\ uncommitted' = {}
  /\ store0' = get_all_links(table')
  /\ tried' = {}
  /\ news' = [l \in Urls |-> 0]
  /\ firsts' = {}
  /\ puts' = [l \in Urls |-> 0]
  /\ submitted' = {}
  /\ dequeued' = 0
  /\ marked' = 0
  /\ pages' = [l \in Urls |-> {"?"}]
  /\ UNCHANGED <<html, max_depth, threads_count>>

(***************************************************************************)
(* Specifications.                                                         *)
(***************************************************************************)
WorkerOk(w) ==
  \/ Worker_Get(w)
  \/ Worker_Empty(w)
  \/ Crawl_Fetch(w)
  \/ Crawl_Lock(w)
  \/ Crawl_Insert(w)
  \/ Crawl_Put(w)
  \/ Worker_TaskDone(w)

Main == Run_Start \/ Run_Submit \/ Run_Shutdown \/ Run_Join

Next ==
  \/ Main
  \/ \E w \in Workers : WorkerOk(w)
  \/ \E w \in Workers : Crawl_FetchFail(w)
  \/ \E w \in Workers : Crawl_InsertFail(w)
  \/ Run_StartFail
  \/ Rerun

\* every behaviour of the program, over consecutive runs
Spec == Init /\ [][Next]_vars

\* one run with every fetch and every store operation succeeding
NextRunOk ==
  \/ Main
  \/ \E w \in Workers : WorkerOk(w)

\* one run in which fetches may fail
NextRun ==
  \/ Main
  \/ \E w \in Workers : WorkerOk(w)
  \/ \E w \in Workers : Crawl_FetchFail(w)

\* the main thread and every worker thread keep being scheduled, and a
\* get that waits on an empty queue does time out
Fairness ==
  /\ WF_vars(Main)
  /\ \A w \in 1..MaxThreads : WF_vars(w \in Workers /\ WorkerOk(w))

FairSpecOk == Init /\ [][NextRunOk]_vars /\ Fairness

FairSpec == Init /\ [][NextRun]_vars /\ Fairness

\* one run in which fetches and store operations may fail
NextRunAny ==
  \/ NextRun
  \/ \E w \in Workers : Crawl_InsertFail(w)
  \/ Run_StartFail

\* one run with max_depth = 3
DeepSpec == DeepInit /\ [][NextRunAny]_vars

(***************************************************************************)
(* Vocabulary of the properties.                                           *)
(***************************************************************************)
\* positions between task_queue.get and task_queue.task_done
InTask == {"crawl", "lock", "insert", "put", "task_done"}

\* tasks dequeued and not yet marked done
InFlight == dequeued - marked

Pending == Len(task_queue)

Drained == Pending = 0 /\ InFlight = 0

SeedTask == [url |-> start_url, depth |-> 1, parent |-> 0]

Abs(p) == base_url \o p

(***************************************************************************)
(* Properties.                                                             *)
(***************************************************************************)

\* C1: when every fetch succeeds, every fair execution of run() reaches a
\* state where the queue is empty, no task is in flight, unfinished_tasks
\* is 0, every worker is stopped and run() has returned.
C1_Terminates ==
  <>( /\ mpc = "returned"
      /\ Drained
      /\ unfinished_tasks = 0
      /\ \A w \in Workers : pc[w] = "stopped" )

\* a run of two workers over a three-page site has returned after
\* processing three tasks
C1_Witness ==
  /\ mpc = "returned"
  /\ threads_count = 2
  /\ dequeued = 3
  /\ Cardinality(get_all_links(table)) = 3

\* C2: also when fetches fail, every fair execution of run() returns with
\* the frontier drained; run() is never left blocked in the final join.
C2_FailuresDoNotBlock ==
  <>( mpc = "returned" /\ Drained /\ unfinished_tasks = 0 )

\* C3: a fetch failure abandons only the task: the worker does not end
\* because of it, and every dequeued task that is no longer being processed
\* has been marked done.
C3_FailedTaskMarkedDone ==
  /\ \A w \in Workers : pc[w] # "raised"
  /\ InFlight = Cardinality({ w \in Workers : pc[w] \in InTask })

\* C4: run() has returned only in states where no task is pending and no
\* task is in flight (no worker is between get and task_done).
C4_SafeTermination ==
  mpc = "returned" =>
    /\ Pending = 0
    /\ InFlight = 0
    /\ \A w \in Workers : pc[w] \notin InTask

\* run() has returned after both workers processed tasks
C4_Witness ==
  /\ mpc = "returned"
  /\ threads_count = 2
  /\ dequeued >= 2
  /\ marked = dequeued

\* C5: every task ever submitted has 1 <= depth <= max_depth; the seed task
\* has depth 1, every other task has the depth of its producing task plus
\* one, and its producing task has depth < max_depth.
C5_DepthBound ==
  /\ \A t \in submitted :
       /\ 1 <= t.depth /\ t.depth <= max_depth
       /\ t.parent = 0 => t = SeedTask
       /\ t.parent > 0 => t.depth = t.parent + 1 /\ t.parent < max_depth
  /\ \A i \in 1..Len(task_queue) :
       1 <= task_queue[i][2] /\ task_queue[i][2] <= max_depth
  /\ \A w \in Workers : pc[w] \in InTask =>
       1 <= task[w].depth /\ task[w].depth <= max_depth

\* a task of depth max_depth = 2 found a new link and went on without
\* submitting a child for it
C5_Witness ==
  /\ max_depth = 2
  /\ \E w \in Workers :
       /\ pc[w] = "task_done"
       /\ task[w].depth = 2
       /\ \E f \in firsts : f[2] = 2
  /\ \E t \in submitted : t.depth = 2

\* C6: at most one task per link is ever submitted during one run, the seed
\* included; a cyclic site (the seed links to A, A links back to the seed)
\* crawled from an empty store yields exactly one task for each.
C6_AtMostOnce ==
  /\ \A l \in Urls : puts[l] <= 1
  /\ \A l \in Urls : Cardinality({ t \in submitted : t.url = l }) = puts[l]
  /\ \A a \in Paths :
       ( /\ mpc = "returned"
         /\ store0 = {}
         /\ max_depth >= 2
         /\ Abs(a) # start_url
         /\ a \in pages[start_url]
         /\ \E s \in pages[Abs(a)] : Abs(s) = start_url )
       => puts[start_url] = 1 /\ puts[Abs(a)] = 1

\* max_depth = 3: the seed links to A and B, and A, whose task has depth
\* 2 < max_depth, links back to the seed and to B; the run has returned
\* with one task for each of the three links, so the seed was refused by the
\* store alone, and B, offered by two tasks allowed to enqueue, was put once
C6_Witness ==
  /\ mpc = "returned"
  /\ max_depth = 3
  /\ threads_count = 2
  /\ store0 = {}
  /\ \E a, b, s \in Paths :
       /\ Abs(s) = start_url /\ a # s /\ b # s /\ a # b
       /\ pages[start_url] = {a, b}
       /\ pages[Abs(a)] = {s, b}
       /\ \E t \in submitted : t.url = Abs(a) /\ t.depth = 2
       /\ puts[start_url] = 1 /\ puts[Abs(a)] = 1 /\ puts[Abs(b)] = 1

\* C7: at most one worker is inside insert_link at a time, and for every
\* link insert_link was called on in this run, no call returned True if the
\* link was present when the run started, at most one did if it was absent,
\* and exactly one did once a call on such a link has returned its answer.
C7_AtomicDedup ==
  /\ Cardinality({ w \in Workers : pc[w] = "insert" }) <= 1
  /\ \A w \in Workers : pc[w] = "insert" <=> db_lock = w
  /\ \A l \in tried : news[l] <= (IF l \in store0 THEN 0 ELSE 1)
  /\ \A w \in Workers :
       (pc[w] = "put" /\ full_link[w] \notin store0) => news[full_link[w]] = 1

\* C8 as stated: once the run has returned, a task referencing a link was
\* submitted if and only if an insertion of that link reported "new".
C8_EnqueueIffNew ==
  mpc = "returned" =>
    \A l \in Urls : puts[l] > 0 <=> news[l] > 0

\* C8 amended: the seed's task is submitted by run() whatever its insertion
\* returned; for every other link a task is submitted (or is about to be, by
\* the worker that has just inserted it) if and only if an insertion of the
\* link reported "new" inside a task of depth < max_depth.  A link first
\* inserted by a task of depth max_depth is stored and not enqueued.
C8_EnqueueIffNewAndShallow ==
  /\ mpc \notin {"run", "raised"} => puts[start_url] > 0
  /\ \A l \in Urls \ {start_url} :
       ( \/ puts[l] > 0
         \/ \E w \in Workers :
              /\ pc[w] = "put" /\ full_link[w] = l /\ is_unique[w]
              /\ task[w].depth < max_depth )
       <=> \E f \in firsts : f[1] = l /\ 1 <= f[2] /\ f[2] < max_depth

\* the run returned with one link enqueued after a first insertion at depth
\* 1 and another link newly inserted at depth max_depth and never enqueued
C8_Witness ==
  /\ mpc = "returned"
  /\ max_depth = 2
  /\ \E k, l \in Urls \ {start_url} :
       /\ puts[k] = 1 /\ <<k, 1>> \in firsts
       /\ puts[l] = 0 /\ <<l, 2>> \in firsts

\* C9: run(), once past its insertion of the seed, has submitted (seed_url, 1)
\* exactly once whether or not the store already held the seed; inserting a seed that is already recorded leaves
\* the table unchanged; and over any number of consecutive runs no link has
\* more than one row.
C9_SeedAndIdempotentStore ==
  /\ [](mpc \notin {"run", "raised"} => puts[start_url] = 1 /\ SeedTask \in submitted)
  /\ [](\A l \in Urls : table[l] <= 1)
  /\ [][(mpc = "run" /\ mpc' # "run" /\ table[start_url] > 0) => table' = table]_vars

\* a later run, whose seed was already in the table when it started, has
\* returned
C9_Witness ==
  /\ mpc = "returned"
  /\ start_url \in store0
  /\ news[start_url] = 0
  /\ puts[start_url] = 1

\* C10: in a run from an empty store with max_depth = 1 or a seed page
\* without matching links, the seed task is the only task ever submitted,
\* and when the run has returned the table holds exactly the seed and the
\* absolute links extracted from the seed page.
C10_ShallowCrawl ==
  (store0 = {} /\ (max_depth = 1 \/ pages[start_url] = {})) =>
    /\ submitted \subseteq {SeedTask}
    /\ mpc = "returned" =>
         /\ submitted = {SeedTask}
         /\ dequeued = 1
         /\ get_all_links(table) = {start_url} \cup { Abs(p) : p \in pages[start_url] }

\* a first run with max_depth = 1 has returned; its seed page links to the
\* two other pages
C10_Witness ==
  /\ mpc = "returned"
  /\ store0 = {}
  /\ max_depth = 1
  /\ Cardinality({ Abs(p) : p \in pages[start_url] } \ {start_url}) = 2

\* C11: an insert_link call returns True exactly when the link had no row
\* before the call, and then the table afterwards is the old table plus that
\* link; it returns False exactly when the link was present, and then the
\* table is unchanged; so the set of stored links never shrinks during a run.
C11_TryInsertContract ==
  /\ [][\A w \in Workers :
          (pc[w] = "insert" /\ pc'[w] = "put") =>
            /\ is_unique'[w] <=> table[full_link[w]] = 0
            /\ is_unique'[w] => table' = [table EXCEPT ![full_link[w]] = 1]
            /\ ~is_unique'[w] => table' = table]_vars
  /\ [][(mpc = "run" \/ mpc' # "run") =>
          get_all_links(table) \subseteq get_all_links(table')]_vars
  /\ [][((mpc = "run" \/ mpc' # "run") /\ table' # table) =>
          \E l \in Urls : table[l] = 0 /\ table' = [table EXCEPT ![l] = 1]]_vars

\* C12: once a store operation of a worker has failed with an error other
\* than "already present", the run does not go on to return as if nothing
\* had happened, and it is not left blocked for ever: the main thread is
\* never waiting in join with every worker ended and tasks still unfinished.
C12_StoreFaultAborts ==
  (\E w \in Workers : pc[w] = "db_error") =>
    /\ mpc # "returned"
    /\ ~(mpc = "join" /\ AllWorkersEnded /\ ~JoinReady)

\* number of task_queue.put calls of the run
TotalPuts == LET RECURSIVE Sum(_)
                 Sum(S) == IF S = {} THEN 0
                           ELSE LET l == CHOOSE x \in S : TRUE
                                IN  puts[l] + Sum(S \ {l})
             IN  Sum(Urls)

\* C13: every submitted task is handed out by get to at most one worker:
\* each task put is either still in the queue or was dequeued exactly once,
\* a task a worker holds is no longer in the queue, and no two workers hold
\* the same task.
C13_NoDuplicateDelivery ==
  /\ TotalPuts = Len(task_queue) + dequeued
  /\ \A w \in Workers : pc[w] \in InTask =>
       /\ \A i \in 1..Len(task_queue) : task_queue[i][1] # task[w].url
       /\ \A v \in Workers \ {w} : pc[v] \in InTask => task[v].url # task[w].url

\* two workers hold two different tasks at once, both taken from a queue
\* that held them together
C13_Witness ==
  /\ threads_count = 2
  /\ pc[1] \in InTask /\ pc[2] \in InTask
  /\ task[1].depth = 2 /\ task[2].depth = 2
  /\ dequeued = 3

\* positions of a worker call that an exception has ended
Ended == {"raised", "db_error"}

\* C14: task_done is called once per dequeued task whose processing
\* completes, never more often than tasks were dequeued, and only after
\* every link of the task's page has been offered to the store and every
\* resulting child has been put; a task is put only from inside the loop of
\* crawl, which precedes the task_done of the task that produced it.
C14_MarkDoneOrdering ==
  /\ [](marked <= dequeued)
  /\ [](dequeued - marked = Cardinality({ w \in Workers : pc[w] \in InTask \cup Ended }))
  /\ [](\A w \in Workers : pc[w] = "task_done" =>
          /\ found_links[w] = {}
          /\ \A p \in pages[task[w].url] :
               /\ Abs(p) \in tried
               /\ (\E f \in firsts : f[1] = Abs(p) /\ 1 <= f[2] /\ f[2] < max_depth)
                    => \/ puts[Abs(p)] >= 1
                       \/ \E v \in Workers \ {w} :
                            pc[v] = "put" /\ full_link[v] = Abs(p) /\ is_unique[v])
  /\ [][(marked' # marked /\ mpc' # "run") =>
          /\ marked' = marked + 1
          /\ submitted' = submitted
          /\ \E w \in Workers : pc[w] = "task_done" /\ pc'[w] = "get"]_vars
  /\ [][(submitted' # submitted /\ mpc \in {"submit", "shutdown"}) =>
          \E w \in Workers : pc[w] = "put" /\ pc'[w] \in {"lock", "task_done"}]_vars

\* a worker is about to call task_done for a task whose page has two links,
\* both offered to the store and both put as children
C14_Witness ==
  /\ max_depth = 2
  /\ \E w \in Workers :
       /\ pc[w] = "task_done"
       /\ Cardinality(pages[task[w].url]) = 2
       /\ \A p \in pages[task[w].url] : puts[Abs(p)] = 1 /\ Abs(p) # start_url

\* C15: in every state in which every worker has stopped (its get timed
\* out), no task is pending, none is in flight and unfinished_tasks is 0, so
\* the join that follows the executor shutdown does not block.
C15_AllStoppedIsDrained ==
  (mpc # "run" /\ \A w \in Workers : pc[w] = "stopped") =>
    /\ Pending = 0
    /\ InFlight = 0
    /\ JoinReady

\* both workers have stopped after processing tasks, and the main thread is
\* still in the executor shutdown
C15_Witness ==
  /\ mpc = "shutdown"
  /\ threads_count = 2
  /\ \A w \in Workers : pc[w] = "stopped"
  /\ marked >= 2

\* C16 as stated: a worker stops only in a state where no task is pending
\* and no task is in flight at another worker.
C16_StopOnlyWhenDrained ==
  [][\A w \in Workers :
       (pc[w] = "get" /\ pc'[w] = "stopped") =>
         /\ Pending = 0
         /\ \A v \in Workers \ {w} : pc[v] \notin InTask]_vars

\* C16 amended: a worker stops when its own get times out, which happens
\* only while no task is pending, whether or not tasks are in flight at
\* other workers; it is run() that returns only when nothing is pending and
\* nothing is in flight.
C16_StopOnlyWhenQueueEmpty ==
  /\ [][\A w \in Workers : (pc[w] = "get" /\ pc'[w] = "stopped") => Pending = 0]_vars
  /\ [][(mpc = "join" /\ mpc' = "returned") => Drained]_vars

\* one worker has stopped while the other is inside crawl, about to put a
\* child task
C16_Witness ==
  \E v, w \in Workers :
    /\ pc[w] = "stopped"
    /\ pc[v] = "put" /\ is_unique[v] /\ task[v].depth < max_depth

\* C17: the in-flight count equals the number of workers now between get
\* and task_done and lies in 0..threads_count; unfinished_tasks is pending
\* plus in-flight; and unfinished_tasks is 0 exactly when the frontier is
\* drained.
C17_InFlightAccounting ==
  /\ InFlight = Cardinality({ w \in Workers : pc[w] \in InTask })
  /\ 0 <= InFlight /\ InFlight <= threads_count
  /\ unfinished_tasks = Pending + InFlight
  /\ unfinished_tasks = 0 <=> Drained

(***************************************************************************)
(* The extractor on its own: documents are fed event by event.             *)
(***************************************************************************)
ParserNext ==
  \/ \E tag \in Tags, attrs \in AttrLists : handle_starttag(tag, attrs)
  \/ handle_endtag
  \/ Parser_New

ParserSpec == Init /\ [][ParserNext]_vars

\* C18: feeding a well-nested document never fails, and once the document is
\* complete get_found_links() holds exactly the hrefs of the <a> start tags
\* that come after the start tag of the id="bodyContent" element and before
\* its end tag, start with /wiki/ and contain no ':'.
C18_ExtractorScopeAndFilter ==
  /\ ~feed_raised
  /\ open_tags = <<>> =>
       _found_links = { a.value : a \in { b \in hrefs_inside :
                          /\ ~b.none
                          /\ Len(b.value) >= 6 /\ SubSeq(b.value, 1, 6) = "/wiki/"
                          /\ Find(b.value, ":") = -1 } }

(***************************************************************************)
(* The link graph of the site, as far as its pages are known.              *)
(***************************************************************************)
Known(u) == pages[u] # {"?"}

\* the links within k links of the seed
RECURSIVE Within(_)
Within(k) ==
  IF k <= 0 THEN {start_url}
  ELSE LET near == Within(k - 1)
       IN  near \cup UNION { { Abs(p) : p \in pages[u] } : u \in { v \in near : Known(v) } }

\* the site also has the pages no task fetched: what a page within
\* max_depth - 1 links of the seed links to becomes known after the run
Reveal ==
  /\ mpc = "returned"
  /\ \E u \in Within(max_depth - 1) :
       /\ ~Known(u)
       /\ \E links \in LinkSets : pages' = [pages EXCEPT ![u] = links]
  /\ UNCHANGED <<html, config, table, uncommitted, task_queue, unfinished_tasks, db_lock, mpc, pc,
                 locals, hist>>

SiteNext == NextRunOk \/ Reveal

\* one run without fetch or store failures, and the rest of the site after it
SiteSpec == Init /\ [][SiteNext]_vars

\* C19: when a run that started on an empty store has returned, the store holds
\* every link within max_depth links of the seed, whatever the interleaving
\* of the workers was.
C19_DepthBoundedCompleteness ==
  (/\ mpc = "returned"
   /\ store0 = {}
   /\ \A u \in Within(max_depth - 1) : Known(u)) =>
    Within(max_depth) \subseteq get_all_links(table)

\* every task a worker holds, the queue holds, or run/crawl has put
TasksSeen ==
  { [url |-> t.url, depth |-> t.depth] : t \in submitted }
    \cup { [url |-> task_queue[i][1], depth |-> task_queue[i][2]] : i \in 1..Len(task_queue) }
    \cup { task[w] : w \in { v \in Workers : pc[v] \in InTask \cup Ended } }

\* C20: in a run that started on an empty store, every stored link is the seed
\* or was extracted from the page of a dequeued task, and so lies within
\* max_depth links of the seed; a task of depth d holds a link within d - 1
\* links of the seed.
C20_VisitedSetSoundness ==
  store0 = {} =>
    /\ get_all_links(table) \subseteq
         {start_url} \cup UNION { { Abs(p) : p \in pages[u] } : u \in { v \in Urls : Known(v) } }
    /\ \A u \in Urls : Known(u) => \E t \in submitted : t.url = u
    /\ get_all_links(table) \subseteq Within(max_depth)
    /\ \A t \in TasksSeen : t.url \in Within(t.depth - 1)

\* a finished run that stored a link exactly max_depth = 2 links from the seed
C20_Witness ==
  /\ mpc = "returned"
  /\ store0 = {}
  /\ max_depth = 2
  /\ get_all_links(table) \ Within(1) # {}
  /\ \E t \in submitted : t.depth = 2 /\ t.url \notin Within(0)

====
